---- MODULE Spec2Model ----
(***************************************************************************)
(* Model of the ESG report pipeline: ESGReportProcessor                    *)
(* (process_esg_report.py) and ESGParser (esg_parser_gpt4o.py).            *)
(*                                                                         *)
(* Two specifications share the variables:                                 *)
(*   PollerSpec  - wait_for_completion called with any check_interval > 0  *)
(*                 and any timeout >= 0 from the bounded sets;             *)
(*   Spec        - main(): process_report with the default poll            *)
(*                 parameters, then ESGParser.process_pdf.                 *)
(* FairPollerSpec / FairSpec add weak fairness of the single thread.       *)
(***************************************************************************)
EXTENDS Integers, Sequences, FiniteSets, TLC

VARIABLES
    pc,              \* position of main()/process_report
    wpc,             \* position inside wait_for_completion
    check_interval,  \* parameter of wait_for_completion
    timeout,         \* parameter of wait_for_completion
    now,             \* time.time() - start_time, in seconds
    lastResp,        \* the status reply observed by the last check_job_status
    is_done,         \* local of wait_for_completion
    error,           \* local of wait_for_completion
    waitResult,      \* return value of wait_for_completion
    wret,            \* which return statement of wait_for_completion was taken
    uploadOutcome,   \* how upload_pdf ended
    fetchOutcome,    \* how get_result ended
    numPages,        \* len(result['pages'])
    pageIdx,         \* pages of result['pages'] already iterated
    all_results,     \* process_content's accumulated list
    lastAnswer,      \* the endpoint's answer to the last analyze_with_gpt4
    llmPageCalls,    \* chat-completion requests made by analyze_with_gpt4
    integExc,        \* the exception integrate_results caught, if any
    integrated,      \* the list integrate_results returned
    integResp,       \* the answer the endpoint holds for the consolidation request
    integRequests,   \* chat-completion requests made by integrate_results
    data,            \* the list save_to_excel was called with
    saveOutcome,     \* how save_to_excel ended
    written,         \* the spreadsheet file was written
    success,         \* return value of process_report
    exitCode         \* argument of sys.exit

vars == <<pc, wpc, check_interval, timeout, now, lastResp, is_done, error,
          waitResult, wret, uploadOutcome, fetchOutcome, numPages, pageIdx,
          all_results, lastAnswer, llmPageCalls, integExc, integrated,
          integResp, integRequests, data, saveOutcome, written, success,
          exitCode>>

pollerVars == <<wpc, check_interval, timeout, now, lastResp, is_done, error,
                waitResult, wret>>

parserVars == <<fetchOutcome, numPages, pageIdx, all_results, lastAnswer,
                llmPageCalls, integExc, integrated, integResp, integRequests,
                data, saveOutcome, written>>

(***************************************************************************)
(* Bounds of the model                                                     *)
(***************************************************************************)
MaxInterval == 3      \* check_interval ranges over 1..MaxInterval
MaxTimeout  == 4      \* timeout ranges over 0..MaxTimeout
MaxPages    == 2      \* pages in a parse result
MaxItems    == 2      \* elements of an `items` array in a model answer
ClockMax    == 320    \* no sleep starts once the clock has passed this

(***************************************************************************)
(* Program constants                                                       *)
(***************************************************************************)
DefaultInterval == 5
DefaultTimeout  == 300

(***************************************************************************)
(* Python values                                                           *)
(***************************************************************************)
None   == "<None>"       \* Python None / JSON null
Absent == "<absent>"     \* key not present in a JSON object
NoValue == "<unset>"     \* a local or result that has not been assigned

\* Python truthiness of an Optional[str]
Truthy(x) == x \notin {None, ""}

(***************************************************************************)
(* Records and language-model answers                                      *)
(***************************************************************************)
\* the keys both validation loops test, in the order of the code
RequiredFields == <<"chapter", "source", "item", "value">>

\* JSON objects a model answer may carry as elements of `items`
RecComplete == [chapter |-> "environment", source |-> "text",
                item |-> "carbon emissions", value |-> "100 t"]
RecNoDatum  == [chapter |-> "environment", source |-> "chart",
                item |-> "water policy", value |-> None]
RecNulls    == [chapter |-> None, source |-> "text",
                item |-> "carbon emissions", value |-> ""]
RecPartial  == [chapter |-> "environment", source |-> "text",
                item |-> "carbon emissions"]

Elements == {RecComplete, RecNoDatum, RecNulls, RecPartial}

RECURSIVE SeqsUpTo(_, _)
SeqsUpTo(S, n) ==
    IF n = 0 THEN {<<>>}
    ELSE LET shorter == SeqsUpTo(S, n - 1)
         IN shorter \cup {Append(q, e) : q \in {x \in shorter : Len(x) = n - 1},
                                         e \in S}

ItemLists == SeqsUpTo(Elements, MaxItems)

\* What one chat-completion call can produce.  kind "APIError": the client
\* raised (transport or model error).  kind "content": message.content, which
\* is optional non-JSON text (`prefix`) followed by either a JSON object or
\* text that is no JSON at all (`body`); an object may lack the `items` key.
APIError == [kind |-> "APIError", prefix |-> FALSE, body |-> "none",
             hasItems |-> FALSE, items |-> <<>>]
NoAnswer == [kind |-> NoValue, prefix |-> FALSE, body |-> "none",
             hasItems |-> FALSE, items |-> <<>>]
Garbage  == [kind |-> "content", prefix |-> FALSE, body |-> "garbage",
             hasItems |-> FALSE, items |-> <<>>]

LLMAnswers ==
    {APIError, Garbage}
    \cup {[kind |-> "content", prefix |-> p, body |-> "object",
           hasItems |-> FALSE, items |-> <<>>] : p \in BOOLEAN}
    \cup {[kind |-> "content", prefix |-> p, body |-> "object",
           hasItems |-> TRUE, items |-> its] : p \in BOOLEAN, its \in ItemLists}

\* json.loads succeeds only on text that is exactly one JSON object
JsonLoadsOk(content) == content.body = "object" /\ ~content.prefix

\* `if not content.startswith('{'): content = content[content.find('{'):]`
\* text before the first brace is cut; text without a brace stays undecodable
TruncateToBrace(content) ==
    IF content.body = "object" THEN [content EXCEPT !.prefix = FALSE]
    ELSE content

\* result.get('items', [])
GetItems(content) == IF content.hasItems THEN content.items ELSE <<>>

HasAllFields_ThreeKeys(item) ==
    \A i \in 1..3 : RequiredFields[i] \in DOMAIN item
\* all(k in item for k in ['chapter', 'source', 'item', 'value'])
HasAllFields(item) ==
    \A i \in 1..Len(RequiredFields) : RequiredFields[i] \in DOMAIN item

\* the validation loop: keep, in order, the elements that pass
ValidateItems(items) == SelectSeq(items, HasAllFields)

analyze_with_gpt4_Truncating(answer) ==
    IF answer.kind = "APIError" THEN <<>>
    ELSE IF ~JsonLoadsOk(TruncateToBrace(answer)) THEN <<>>
    ELSE ValidateItems(GetItems(answer))
\* analyze_with_gpt4: the list it returns for one answer
analyze_with_gpt4(answer) ==
    IF answer.kind = "APIError" THEN <<>>
    ELSE IF ~JsonLoadsOk(answer) THEN <<>>
    ELSE ValidateItems(GetItems(answer))

(***************************************************************************)
(* integrate_results                                                       *)
(***************************************************************************)
\* integration_prompt as str.format sees it: literal text and replacement
\* fields.  The JSON example of the prompt opens with a single brace, so it
\* is a replacement field whose name is the text up to the first colon.
Lit(t) == [tok |-> "text", name |-> t]
Field(n) == [tok |-> "field", name |-> n]
integration_prompt ==
    <<Lit("rules"), Field("previous_results"), Lit("same format"),
      Field("<newline> 'items'"), Lit("notes")>>

\* str.format(**kwargs): KeyError for a field that is no keyword argument
StrFormat(template, kwargs) ==
    IF \E i \in 1..Len(template) :
          template[i].tok = "field" /\ template[i].name \notin kwargs
    THEN "KeyError" ELSE "ok"

IntegrateFallback_Empty(given) == <<>>
\* `return all_results` of both except clauses
IntegrateFallback(given) == given

\* integrate_results: [exc, out, requests] for the list given and the answer
\* the endpoint would give to the consolidation request
integrate_results(given, answer) ==
    IF StrFormat(integration_prompt, {"previous_results"}) # "ok"
    THEN [exc |-> StrFormat(integration_prompt, {"previous_results"}),
          out |-> IntegrateFallback(given), requests |-> 0]
    ELSE IF answer.kind = "APIError"
    THEN [exc |-> "APIError", out |-> IntegrateFallback(given), requests |-> 1]
    ELSE IF ~JsonLoadsOk(TruncateToBrace(answer))
    THEN [exc |-> "JSONDecodeError", out |-> IntegrateFallback(given),
          requests |-> 1]
    ELSE [exc |-> "none", out |-> ValidateItems(GetItems(answer)),
          requests |-> 1]

(***************************************************************************)
(* save_to_excel                                                           *)
(***************************************************************************)
\* columns of pd.DataFrame(data): the union of the records' keys
Columns(rows) == UNION {DOMAIN rows[i] : i \in 1..Len(rows)}

\* df.sort_values(['chapter', 'source', 'item']) raises KeyError when one of
\* the sort keys is no column, as for the frame built from an empty list
SortRaises(rows) == ~({"chapter", "source", "item"} \subseteq Columns(rows))

(***************************************************************************)
(* check_job_status                                                        *)
(***************************************************************************)
\* What one GET /job/{id}/status can produce: a JSON status object, or a
\* requests.exceptions.RequestException whose str() is in `error`.
StatusReplies ==
    {[status |-> "completed", error |-> Absent],
     [status |-> "pending",   error |-> Absent]}
    \cup {[status |-> "failed", error |-> e] :
             e \in {"corrupt file", "", None, Absent}}
    \cup {[status |-> "TransportError", error |-> m] : m \in {"HTTP 500", ""}}

NoReply == [status |-> NoValue, error |-> Absent]

\* dict.get(key, default): the default only when the key is absent
DictGet(value, default) == IF value = Absent THEN default ELSE value

\* returns <<is_done, error>>
check_job_status(reply) ==
    IF reply.status = "TransportError" THEN <<FALSE, reply.error>>
    ELSE IF reply.status = "completed" THEN <<TRUE, None>>
    ELSE IF reply.status = "failed" THEN <<TRUE, DictGet(reply.error, "unknown error")>>
    ELSE <<FALSE, None>>

(***************************************************************************)
(* wait_for_completion                                                     *)
(***************************************************************************)
TimedOut_Swapped(elapsed, limit) == (0 - elapsed) > limit
\* `time.time() - start_time > timeout`
TimedOut(elapsed, limit) == elapsed > limit

WaitDecision_RetryUnlessDone(done, err) ==
    IF done /\ ~Truthy(err) THEN "done"
    ELSE IF done /\ Truthy(err) THEN "error"
    ELSE "sleep"
\* the if / elif after check_job_status: which branch is taken
WaitDecision(done, err) ==
    IF done /\ ~Truthy(err) THEN "done"
    ELSE IF Truthy(err) THEN "error"
    ELSE "sleep"

\* top of the loop: the timeout test
CheckTimeout ==
    /\ pc = "wait"
    /\ wpc = "check_timeout"
    /\ IF TimedOut(now, timeout)
       THEN /\ wpc' = "returned"
            /\ waitResult' = "False"
            /\ wret' = "timeout"
       ELSE /\ wpc' = "check_status"
            /\ UNCHANGED <<waitResult, wret>>
    /\ UNCHANGED <<pc, check_interval, timeout, now, lastResp, is_done, error,
                   uploadOutcome, success, exitCode>>
    /\ UNCHANGED parserVars

\* one status query and the branch on its result
CheckStatus ==
    /\ pc = "wait"
    /\ wpc = "check_status"
    /\ \E reply \in StatusReplies :
          LET r == check_job_status(reply)
              d == WaitDecision(r[1], r[2])
          IN /\ lastResp' = reply
             /\ is_done' = r[1]
             /\ error' = r[2]
             /\ IF d = "done"
                THEN /\ wpc' = "returned"
                     /\ waitResult' = "True"
                     /\ wret' = "done"
                ELSE IF d = "error"
                THEN /\ wpc' = "returned"
                     /\ waitResult' = "False"
                     /\ wret' = "error"
                ELSE /\ wpc' = "sleep"
                     /\ UNCHANGED <<waitResult, wret>>
    /\ UNCHANGED <<pc, check_interval, timeout, now, uploadOutcome, success,
                   exitCode>>
    /\ UNCHANGED parserVars

\* time.sleep(check_interval): the only way time advances
Sleep ==
    /\ pc = "wait"
    /\ wpc = "sleep"
    /\ now <= ClockMax
    /\ now' = now + check_interval
    /\ wpc' = "check_timeout"
    /\ UNCHANGED <<pc, check_interval, timeout, lastResp, is_done, error,
                   waitResult, wret, uploadOutcome, success, exitCode>>
    /\ UNCHANGED parserVars

ParserInit ==
    /\ fetchOutcome = NoValue
    /\ numPages = 0
    /\ pageIdx = 0
    /\ all_results = <<>>
    /\ lastAnswer = NoAnswer
    /\ llmPageCalls = 0
    /\ integExc = NoValue
    /\ integrated = <<>>
    /\ integResp = NoAnswer
    /\ integRequests = 0
    /\ data = <<>>
    /\ saveOutcome = NoValue
    /\ written = FALSE

PollerLocalsInit ==
    /\ now = 0
    /\ lastResp = NoReply
    /\ is_done = FALSE
    /\ error = None
    /\ waitResult = NoValue
    /\ wret = NoValue

\* wait_for_completion entered directly with any parameters
PollerInit ==
    /\ pc = "wait"
    /\ wpc = "check_timeout"
    /\ check_interval \in 1..MaxInterval
    /\ timeout \in 0..MaxTimeout
    /\ PollerLocalsInit
    /\ ParserInit
    /\ uploadOutcome = "ok"
    /\ success = NoValue
    /\ exitCode = -1

PollerNext == CheckTimeout \/ CheckStatus \/ Sleep

PollerSpec == PollerInit /\ [][PollerNext]_vars

FairPollerSpec == PollerSpec /\ WF_vars(PollerNext)

(***************************************************************************)
(* process_report, process_pdf and main                                    *)
(***************************************************************************)
\* process_report's `except Exception`: log and return False
ReturnFalse ==
    /\ success' = "False"
    /\ pc' = "return"

\* upload_pdf: the job id, FileNotFoundError or a RequestException
UploadPdf ==
    /\ pc = "upload"
    /\ \E outcome \in {"ok", "FileNotFoundError", "RequestException"} :
          /\ uploadOutcome' = outcome
          /\ IF outcome = "ok"
             THEN /\ pc' = "wait"
                  /\ wpc' = "check_timeout"
                  /\ UNCHANGED success
             ELSE /\ ReturnFalse
                  /\ UNCHANGED wpc
    /\ UNCHANGED <<check_interval, timeout, now, lastResp, is_done, error,
                   waitResult, wret, exitCode>>
    /\ UNCHANGED parserVars

WaitFailed_Ignored(result) == FALSE
\* `if not self.wait_for_completion(job_id)`
WaitFailed(result) == result # "True"

\* wait_for_completion has returned: its locals are gone, its value decides
AfterWait ==
    /\ pc = "wait"
    /\ wpc = "returned"
    /\ wpc' = "idle"
    /\ now' = 0
    /\ lastResp' = NoReply
    /\ is_done' = FALSE
    /\ error' = None
    /\ IF WaitFailed(waitResult)
       THEN /\ success' = "False"
            /\ pc' = "return"
       ELSE /\ pc' = "get_result"
            /\ UNCHANGED success
    /\ UNCHANGED <<check_interval, timeout, waitResult, wret, uploadOutcome,
                   exitCode>>
    /\ UNCHANGED parserVars

\* get_result: the parse result, or a RequestException that process_pdf logs
\* and re-raises
GetResult ==
    /\ pc = "get_result"
    /\ \/ /\ fetchOutcome' = "ok"
          /\ numPages' \in 0..MaxPages
          /\ pc' = "process_content"
          /\ UNCHANGED success
       \/ /\ fetchOutcome' = "RequestException"
          /\ ReturnFalse
          /\ UNCHANGED numPages
    /\ UNCHANGED pollerVars
    /\ UNCHANGED <<pageIdx, all_results, lastAnswer, llmPageCalls, integExc,
                   integrated, integResp, integRequests, data, saveOutcome,
                   written, uploadOutcome, exitCode>>

\* one iteration of the loop over result['pages']: a page without `items`,
\* a page whose items hold no text, or a page whose text is analysed
PageKinds == {"no_items_key", "no_text", "text"}

ProcessPage ==
    /\ pc = "process_content"
    /\ pageIdx < numPages
    /\ pageIdx' = pageIdx + 1
    /\ \E kind \in PageKinds :
          IF kind = "text"
          THEN \E answer \in LLMAnswers :
                  /\ lastAnswer' = answer
                  /\ llmPageCalls' = llmPageCalls + 1
                  /\ all_results' = all_results \o analyze_with_gpt4(answer)
          ELSE UNCHANGED <<lastAnswer, llmPageCalls, all_results>>
    /\ UNCHANGED pollerVars
    /\ UNCHANGED <<pc, fetchOutcome, numPages, integExc, integrated, integResp,
                   integRequests, data, saveOutcome, written, uploadOutcome,
                   success, exitCode>>

\* the end of process_content: integrate_results(all_results)
IntegrateResults ==
    /\ pc = "process_content"
    /\ pageIdx = numPages
    /\ \E answer \in LLMAnswers :
          LET r == integrate_results(all_results, answer)
          IN /\ integResp' = answer
             /\ integExc' = r.exc
             /\ integrated' = r.out
             /\ integRequests' = integRequests + r.requests
    /\ lastAnswer' = NoAnswer
    /\ pc' = "save"
    /\ UNCHANGED pollerVars
    /\ UNCHANGED <<fetchOutcome, numPages, pageIdx, all_results, llmPageCalls,
                   data, saveOutcome, written, uploadOutcome, success,
                   exitCode>>

\* save_to_excel(data, excel_path), then the return of process_report
SaveToExcel ==
    /\ pc = "save"
    /\ data' = integrated
    /\ IF SortRaises(integrated)
       THEN /\ saveOutcome' = "KeyError"
            /\ written' = FALSE
            /\ ReturnFalse
       ELSE \/ /\ saveOutcome' = "ok"
               /\ written' = TRUE
               /\ success' = "True"
               /\ pc' = "return"
            \/ /\ saveOutcome' = "OSError"
               /\ written' = FALSE
               /\ ReturnFalse
    /\ UNCHANGED pollerVars
    /\ UNCHANGED <<fetchOutcome, numPages, pageIdx, all_results, lastAnswer,
                   llmPageCalls, integExc, integrated, integResp,
                   integRequests, uploadOutcome, exitCode>>

\* sys.exit(0 if success else 1)
Exit ==
    /\ pc = "return"
    /\ exitCode' = IF success = "True" THEN 0 ELSE 1
    /\ pc' = "exited"
    /\ UNCHANGED pollerVars
    /\ UNCHANGED parserVars
    /\ UNCHANGED <<uploadOutcome, success>>

\* main() after the processor was constructed: process_report with the
\* default poll parameters
Init ==
    /\ pc = "upload"
    /\ wpc = "idle"
    /\ check_interval = DefaultInterval
    /\ timeout = DefaultTimeout
    /\ PollerLocalsInit
    /\ ParserInit
    /\ uploadOutcome = NoValue
    /\ success = NoValue
    /\ exitCode = -1

Next ==
    \/ UploadPdf
    \/ CheckTimeout
    \/ CheckStatus
    \/ Sleep
    \/ AfterWait
    \/ GetResult
    \/ ProcessPage
    \/ IntegrateResults
    \/ SaveToExcel
    \/ Exit

Spec == Init /\ [][Next]_vars

FairSpec == Spec /\ WF_vars(Next)

(***************************************************************************)
(* Properties of wait_for_completion (checked under PollerSpec)            *)
(***************************************************************************)
Returned == wpc = "returned"

\* C1: wait_for_completion returns no later than `timeout` seconds after it
\* was called, whatever the check_interval and the status replies.
C1_ReturnsWithinTimeout == Returned => now <= timeout

C3_SuccessOnlyIfCompleted ==
    Returned =>
        /\ (waitResult = "True" => lastResp.status = "completed")
        /\ (lastResp.status = "failed" => waitResult = "False")

AllFour == {"chapter", "source", "item", "value"}
IsComplete(rec) == AllFour \subseteq DOMAIN rec
CompleteOnes(items) == SelectSeq(items, IsComplete)

\* the last n elements of a sequence
LastN(q, n) == SubSeq(q, Len(q) - n + 1, Len(q))

\* C5: once upload, polling and result fetch have succeeded, failures of the
\* annotator and of the integrator do not abort the run: the spreadsheet is
\* written and the process exits with code 0 (a failure of the file write
\* itself set aside).
C5_ExtractionFailuresAbsorbed ==
    (/\ pc = "exited"
     /\ fetchOutcome = "ok"
     /\ llmPageCalls > 0
     /\ saveOutcome # "OSError")
    => (written /\ success = "True" /\ exitCode = 0)

Failed == uploadOutcome \notin {NoValue, "ok"} \/ waitResult = "False"

\* C6: when the upload fails or wait_for_completion returns failure,
\* process_report returns failure, the exit code is 1 and no result fetch, no
\* language-model request and no spreadsheet write happens; fetch,
\* annotation, integration and write happen only after polling succeeded, in
\* that order.
C6_FailureStopsPipeline ==
    /\ [](Failed =>
            /\ pc \in {"wait", "return", "exited"}
            /\ fetchOutcome = NoValue
            /\ llmPageCalls = 0
            /\ integExc = NoValue /\ integRequests = 0
            /\ saveOutcome = NoValue /\ ~written
            /\ (pc \in {"return", "exited"} => success = "False")
            /\ (pc = "exited" => exitCode = 1))
    /\ [](/\ (fetchOutcome # NoValue =>
                 uploadOutcome = "ok" /\ waitResult = "True")
          /\ (llmPageCalls > 0 => fetchOutcome = "ok")
          /\ (integExc # NoValue => fetchOutcome = "ok" /\ pageIdx = numPages)
          /\ (saveOutcome # NoValue => integExc # NoValue)
          /\ (written => saveOutcome = "ok"))
    /\ [][/\ (integExc # NoValue => llmPageCalls' = llmPageCalls)
          /\ (saveOutcome # NoValue => /\ integRequests' = integRequests
                                       /\ integExc' = integExc)]_vars

\* the run ended with exit code 1 after the poller returned failure
C6_Witness ==
    /\ pc = "exited"
    /\ uploadOutcome = "ok"
    /\ waitResult = "False"
    /\ wret = "error"
    /\ exitCode = 1

\* C7: every record in the list passed to save_to_excel has non-null
\* chapter, source and item, and a value that is a non-empty string or null.
C7_WriterRecordsWellFormed ==
    saveOutcome # NoValue =>
        \A i \in 1..Len(data) :
            /\ IsComplete(data[i])
            /\ data[i].chapter # None
            /\ data[i].source # None
            /\ data[i].item # None
            /\ data[i].value # ""

C9_IntegrationUsesResponse ==
    integExc # NoValue =>
        /\ integRequests = 1
        /\ (integResp.kind = "content" /\ integResp.body = "object" =>
               integrated = CompleteOnes(GetItems(integResp)))

\* C10: when integrate_results catches an exception it returns exactly the
\* list it was given, and the caller goes on to save_to_excel.
C10_FallbackReturnsInput ==
    integExc \notin {NoValue, "none"} =>
        /\ integrated = all_results
        /\ pc \in {"save", "return", "exited"}
        /\ (pc \in {"return", "exited"} => saveOutcome # NoValue /\ data = all_results)

\* integrate_results caught an exception while holding two different records
C10_Witness ==
    /\ integExc = "KeyError"
    /\ all_results = <<RecComplete, RecNulls>>
    /\ integrated = <<RecComplete, RecNulls>>
    /\ saveOutcome = "ok"

\* the answer to a page request is no valid JSON, or the request failed
AnswerUnusable(answer) ==
    \/ answer.kind = "APIError"
    \/ answer.kind = "content" /\ (answer.body # "object" \/ answer.prefix)

\* C11: analyze_with_gpt4 never raises: when the answer for a page is not
\* valid JSON or the request fails, it returns an empty list, so the records
\* accumulated from earlier pages stay as they were and process_content goes
\* on with the next page.
C11_PageFailureIsolated ==
    [][(llmPageCalls' = llmPageCalls + 1) =>
          /\ pc' = "process_content"
          /\ pageIdx' = pageIdx + 1
          /\ success' = success
          /\ (AnswerUnusable(lastAnswer') => all_results' = all_results)]_vars

\* the second page's answer was undecodable after the first page gave a record
C11_Witness ==
    /\ pc = "process_content"
    /\ pageIdx = 2
    /\ llmPageCalls = 2
    /\ AnswerUnusable(lastAnswer)
    /\ lastAnswer.kind = "content"
    /\ all_results = <<RecComplete>>

====
